---- MODULE Spec2Model ----
(***************************************************************************)
(* Scheduled message delivery engine of nas-wapi (wwebjs_api).             *)
(*                                                                         *)
(* The repository holds several generations of the same engine side by     *)
(* side; the model keeps them apart by a deployment variable:              *)
(*   job store   : dbHelper.mjs (SQLite, "sqlite"), the first MongoDB      *)
(*                 helper (unnamed/part_007, "mongo") and redisHelper.mjs  *)
(*                 (Upstash Redis: a hash per job and index sets)          *)
(*   dispatching : the Bree poller (jobs/processScheduledMessages.mjs),    *)
(*                 the Bull queue consumer (unnamed/part_009, 77-154) and  *)
(*                 the Upstash workflows (unnamed/part_015)                *)
(*   route       : POST /message with scheduleHelper.scheduleDispatch      *)
(*   sender      : sendMessageWithRetry, first and enhanced generation     *)
(*   stored job  : what each store writes for content and options and      *)
(*                 what it reads back                                      *)
(*   format      : validationHelper.isValidScheduleFormat, both generations*)
(*   cache       : helpers/cache (unnamed/part_003): Cache and withCache   *)
(*   node-cron   : the node-cron poller of unnamed/part_010                 *)
(*   Redis steps : redisHelper command by command, and with deleteMessage  *)
(*                 and the cleanup workflow taken whole                    *)
(*   batch       : scheduleBatchMessages and batchMessageWorkflow          *)
(* Time is a discrete clock `now`; one unit stands for any span of         *)
(* milliseconds.                                                           *)
(***************************************************************************)
EXTENDS Integers, Sequences, FiniteSets, TLC

\* ------------------------------------------------------------------ bounds
MaxJobs == 2
MaxTime == 3
MaxDelay == 2
MaxReqs == 2

Ids == 1..MaxJobs
Times == 0..MaxTime
Delays == 0..MaxDelay
Reqs == 1..MaxReqs

\* The values the status argument and column take in the sources.
Statuses == {"scheduled", "sent", "failed"}
Terminal == {"sent", "failed"}

VARIABLES
  now,        \* Date.now()
  store,      \* the job store deployed: "sqlite" | "mongo" | "redis"
  rows,       \* dbHelper: scheduled_messages table / scheduledMessages collection
  hash,       \* redisHelper: scheduled:<id> hashes
  byTime,     \* redisHelper: sorted set scheduled:by-time (members; score = hash time)
  statusSet,  \* redisHelper: sets scheduled:status:<s>
  last,       \* the store call that completed last: op, id, status, outcome
  prev,       \* the store call that completed before it
  mode,       \* dispatching deployed: "cron" | "redis" (QUEUE_CONNECTION) | "workflow"
  item,       \* Bull: the delayed job queued for each stored job
  poll,       \* Bree worker processScheduledMessages.mjs: pc and per-message progress
  runs,       \* Upstash: the messageWorkflow run started for each stored job
  by,         \* history: which dispatchers called sendMessageWithRetry for a job
  early,      \* history: sendMessageWithRetry was called before the job's scheduledTime
  routeVersion, \* POST /message generation: "plain" | "validated"
  req,        \* POST /message requests: schedule, time handled, reply, how sent
  timers,     \* setTimeout callbacks armed by scheduleDispatch (process memory)
  clientState,  \* whatsappClient.mjs clientState
  sendVersion,  \* sendMessageWithRetry generation: "first" | "enhanced"
  exec,       \* the running sendMessageWithRetry call: pc, attempt, waits, outcome
  flight,     \* client.sendMessage calls that have not settled, by attempt number
  tries,      \* how many times the caller has invoked sendMessageWithRetry for the job
  sends,      \* how many client.sendMessage calls were made for the job
  codec,      \* a job written to a store and read back: input, stored row, output
  check,      \* a call of isValidScheduleFormat: version, input, outcome
  cache,      \* cache.mjs Cache.store: key -> entry (data, timestamp, ttl)
  cacheLog,   \* history: per key the last set and whether it was deleted; the last get
  wrapped,    \* calls of a withCache-wrapped function and the runs of the function
  cron,       \* node-cron poller (unnamed/part_010): the callbacks that are running
  rop,        \* redisHelper operation in progress, between two of its Redis commands
  batch,      \* a batchMessageWorkflow run
  issued      \* the ids redisManager.generateId() has returned

storeVars == <<now, store, rows, hash, byTime, statusSet, last, prev>>
dispatchVars == <<mode, item, poll, runs, by, early>>
routeVars == <<routeVersion, req, timers>>
execVars == <<clientState, sendVersion, exec, flight, tries, sends>>
unitVars == <<execVars, codec, check>>
lateVars == <<cache, cacheLog, wrapped, cron, rop, batch, issued>>
vars == <<storeVars, dispatchVars, routeVars, unitVars, lateVars>>

NoRow == [status |-> "none", scheduledTime |-> 0]
NoCall == [op |-> "none", id |-> 0, status |-> "none", result |-> "none"]

Exists(r, id) == r[id].status # "none"
FreeIds(r) == {i \in Ids : ~Exists(r, i)}
\* randomUUID() / generateId(): an id no stored job has
NewId(r) == CHOOSE i \in FreeIds(r) : \A k \in FreeIds(r) : i <= k

\* ------------------------------------------------------- dbHelper (SQLite)
\* INSERT ... VALUES (id, ..., scheduled_time = now + delay, 'scheduled', ...)
saveScheduledMessage(r, id, t, delay) ==
  [r EXCEPT ![id] = [status |-> "scheduled", scheduledTime |-> t + delay]]

\* SELECT ... WHERE status = 'scheduled'   (no condition on scheduled_time)
getScheduledMessages(r) == {i \in Ids : r[i].status = "scheduled"}

\* (variant) a status update that accepts only a job that is still scheduled
updateMessageStatusOnce(r, id, status) ==
  IF ~Exists(r, id) THEN [rows |-> r, result |-> "NotFound"]
  ELSE IF r[id].status = "scheduled"
    THEN [rows |-> [r EXCEPT ![id].status = status], result |-> "ok"]
    ELSE [rows |-> r, result |-> "Conflict"]

\* UPDATE scheduled_messages SET status = ? WHERE id = ?; throws 404 when no
\* row changed.  The current status is not read.
updateMessageStatus(r, id, status) ==
  IF Exists(r, id)
    THEN [rows |-> [r EXCEPT ![id].status = status], result |-> "ok"]
    ELSE [rows |-> r, result |-> "NotFound"]

\* First MongoDB helper: updateOne({_id}, {$set: {status}}), result not looked at.
mongoUpdateMessageStatus(r, id, status) ==
  IF Exists(r, id)
    THEN [rows |-> [r EXCEPT ![id].status = status], result |-> "ok"]
    ELSE [rows |-> r, result |-> "ok"]

dbUpdateMessageStatus(kind, r, id, status) ==
  IF kind = "mongo" THEN mongoUpdateMessageStatus(r, id, status)
                    ELSE updateMessageStatus(r, id, status)

\* ------------------------------------------------------ redisHelper (Redis)
NoIndex == [s \in Statuses |-> {}]

\* hset scheduled:<id>; zadd scheduled:by-time <scheduledTime> <id>;
\* sadd scheduled:status:scheduled <id>
redisSaveScheduledMessage(h, bt, ss, id, t, delay) ==
  [hash |-> [h EXCEPT ![id] = [status |-> "scheduled", scheduledTime |-> t + delay]],
   byTime |-> bt \cup {[id |-> id, score |-> t + delay]},
   statusSet |-> [ss EXCEPT !["scheduled"] = @ \cup {id}]]

\* zrangebyscore scheduled:by-time -inf <now>, then hgetall of each member,
\* kept when the hash exists and its status is 'scheduled'
redisGetScheduledMessages(h, bt, t) ==
  {i \in Ids : /\ \E m \in bt : m.id = i /\ m.score <= t
               /\ Exists(h, i)
               /\ h[i].status = "scheduled"}

\* hgetall; 404 when the hash is missing or empty; hset status; when the
\* status changed: srem old set, sadd new set, zrem by-time unless the new
\* status is 'scheduled'.  No transition is refused.
redisUpdateMessageStatus(h, bt, ss, id, status) ==
  IF ~Exists(h, id)
    THEN [hash |-> h, byTime |-> bt, statusSet |-> ss, result |-> "NotFound"]
    ELSE LET oldStatus == h[id].status
             h2 == [h EXCEPT ![id].status = status]
         IN  IF oldStatus # status
               THEN [hash |-> h2,
                     byTime |-> IF status # "scheduled"
                                  THEN {m \in bt : m.id # id} ELSE bt,
                     statusSet |-> [s \in Statuses |->
                                      IF s = status THEN ss[s] \cup {id}
                                      ELSE IF s = oldStatus THEN ss[s] \ {id}
                                      ELSE ss[s]],
                     result |-> "ok"]
               ELSE [hash |-> h2, byTime |-> bt, statusSet |-> ss, result |-> "ok"]

\* The record of job i in the deployed store, and its status ("none": no job).
Job(i) == IF store = "redis" THEN hash[i] ELSE rows[i]
JobStatus(i) == Job(i).status

\* ------------------------------------------------- job-store operations
NoItem == [pc |-> "none", due |-> 0, made |-> 0]
NoRun == [pc |-> "none", delay |-> 0, at |-> 0]
NoReq == [kind |-> "none", t |-> 0, at |-> 0, resp |-> "none", sent |-> "no"]

EmptyStore ==
  /\ now = 0
  /\ rows = [i \in Ids |-> NoRow]
  /\ hash = [i \in Ids |-> NoRow]
  /\ byTime = {}
  /\ statusSet = NoIndex
  /\ last = NoCall
  /\ prev = NoCall

NoDispatch ==
  /\ item = [i \in Ids |-> NoItem]
  /\ poll = [pc |-> "idle", msgs |-> [i \in Ids |-> "none"]]
  /\ runs = [i \in Ids |-> NoRun]
  /\ by = [i \in Ids |-> {}]
  /\ early = [i \in Ids |-> FALSE]

NoRoute ==
  /\ req = [r \in Reqs |-> NoReq]
  /\ timers = {}

NoExec == [pc |-> "idle", state |-> "READY", attempt |-> 0, calls |-> 0,
           waits |-> <<>>, result |-> "none", msg |-> {}, type |-> "none", code |-> [defined |-> FALSE, v |-> 0]]
NoCodec == [pc |-> "none"]
NoCheck == [pc |-> "none", version |-> "none", result |-> "none"]

NoOp == [kind |-> "none", id |-> 0, pc |-> "none", status |-> "none", old |-> "none"]
NoBatch == [pc |-> "none"]

\* nothing of the cache, the node-cron poller, a Redis operation in steps or
\* a batch run is in use
NoLate ==
  /\ cache = <<>>
  /\ cacheLog = <<>>
  /\ wrapped = <<>>
  /\ cron = <<>>
  /\ rop = NoOp
  /\ batch = NoBatch
  /\ issued = {}

\* nothing of the sender, the codec or the validator is in use
NoUnits ==
  /\ clientState = "READY"
  /\ sendVersion = "none"
  /\ exec = NoExec
  /\ flight = {}
  /\ tries = 0
  /\ sends = 0
  /\ codec = NoCodec
  /\ check = NoCheck
  /\ NoLate

StoreInit ==
  /\ EmptyStore
  /\ store \in {"sqlite", "mongo", "redis"}
  /\ mode = "none"
  /\ NoDispatch
  /\ routeVersion = "none"
  /\ NoRoute
  /\ NoUnits

Call(op, id, status, result) ==
  [op |-> op, id |-> id, status |-> status, result |-> result]

\* saveScheduledMessage(chatId, content, options, delay) of dbHelper
DbSave(delay) ==
  /\ store \in {"sqlite", "mongo"}
  /\ FreeIds(rows) # {}
  /\ LET id == NewId(rows)
     IN  /\ rows' = saveScheduledMessage(rows, id, now, delay)
         /\ last' = Call("save", id, "scheduled", "ok")
  /\ prev' = last
  /\ UNCHANGED <<now, store, hash, byTime, statusSet>>
  /\ UNCHANGED <<lateVars, dispatchVars, routeVars, unitVars>>

\* updateMessageStatus(id, status) of dbHelper
DbUpdate(id, status) ==
  /\ store \in {"sqlite", "mongo"}
  /\ LET u == dbUpdateMessageStatus(store, rows, id, status)
     IN  /\ rows' = u.rows
         /\ last' = Call("update", id, status, u.result)
  /\ prev' = last
  /\ UNCHANGED <<now, store, hash, byTime, statusSet>>
  /\ UNCHANGED <<lateVars, dispatchVars, routeVars, unitVars>>

\* saveScheduledMessage(chatId, content, options, delay) of redisHelper
RedisSave(delay) ==
  /\ store = "redis"
  /\ FreeIds(hash) # {}
  /\ LET id == NewId(hash)
         s == redisSaveScheduledMessage(hash, byTime, statusSet, id, now, delay)
     IN  /\ hash' = s.hash
         /\ byTime' = s.byTime
         /\ statusSet' = s.statusSet
         /\ last' = Call("save", id, "scheduled", "ok")
  /\ prev' = last
  /\ UNCHANGED <<now, store, rows>>
  /\ UNCHANGED <<lateVars, dispatchVars, routeVars, unitVars>>

\* updateMessageStatus(id, status) of redisHelper
RedisUpdate(id, status) ==
  /\ store = "redis"
  /\ LET u == redisUpdateMessageStatus(hash, byTime, statusSet, id, status)
     IN  /\ hash' = u.hash
         /\ byTime' = u.byTime
         /\ statusSet' = u.statusSet
         /\ last' = Call("update", id, status, u.result)
  /\ prev' = last
  /\ UNCHANGED <<now, store, rows>>
  /\ UNCHANGED <<lateVars, dispatchVars, routeVars, unitVars>>

StoreNext ==
  \/ \E d \in Delays : DbSave(d)
  \/ \E i \in Ids, s \in Statuses : DbUpdate(i, s)
  \/ \E d \in Delays : RedisSave(d)
  \/ \E i \in Ids, s \in Statuses : RedisUpdate(i, s)

StoreSpec == StoreInit /\ [][StoreNext]_vars

\* ------------------------------------------------------------ dispatching
\* messageQueue.add(data, { delay, attempts: 3, backoff: 5000 })
BullAttempts == 3
\* the backoff of 5000 ms, as one clock unit
BullBackoff == 1

Init ==
  /\ EmptyStore
  /\ mode \in {"cron", "redis", "workflow"}
  /\ store = IF mode = "workflow" THEN "redis" ELSE "sqlite"
  /\ NoDispatch
  /\ routeVersion = "none"
  /\ NoRoute
  /\ NoUnits

\* sendMessageWithRetry(chatId, content, options) is called for job i by `who`
Attempt(i, who) ==
  /\ by' = [by EXCEPT ![i] = @ \cup {who}]
  /\ early' = [early EXCEPT ![i] = @ \/ now < Job(i).scheduledTime]

\* addMessageToQueue of the Bull generation: the job is saved with dbHelper;
\* it is queued in Bull only when QUEUE_CONNECTION is "redis"
AddMessageToQueue(delay) ==
  /\ mode \in {"cron", "redis"}
  /\ FreeIds(rows) # {}
  /\ LET id == NewId(rows)
     IN  /\ rows' = saveScheduledMessage(rows, id, now, delay)
         /\ item' = IF mode = "redis"
                      THEN [item EXCEPT ![id] =
                              [pc |-> "delayed", due |-> now + delay, made |-> 0]]
                      ELSE item
  /\ UNCHANGED <<now, store, hash, byTime, statusSet, last, prev>>
  /\ UNCHANGED <<lateVars, mode, poll, runs, by, early, routeVars, unitVars>>

\* Bull: a handler that threw is run again after the backoff, `attempts` times in all
BullFail(it, t) ==
  IF it.made + 1 < BullAttempts
    THEN [pc |-> "delayed", due |-> t + BullBackoff, made |-> it.made + 1]
    ELSE [pc |-> "failed", due |-> it.due, made |-> it.made + 1]

\* messageQueue.process handler, up to the send: Bull hands the job over once
\* its delay has passed; sleep(additionalDelay); sendMessageWithRetry
BullSend(i, ok) ==
  /\ mode = "redis"
  /\ item[i].pc = "delayed"
  /\ now >= item[i].due
  /\ Attempt(i, "broker")
  /\ item' = [item EXCEPT ![i] = IF ok THEN [@ EXCEPT !.pc = "sent"]
                                       ELSE BullFail(@, now)]
  /\ UNCHANGED <<lateVars, storeVars, mode, poll, runs, routeVars, unitVars>>

\* the handler after a successful send: updateMessageStatus(id, "sent"); an
\* error is rethrown, which fails the Bull job
BullUpdate(i) ==
  /\ mode = "redis"
  /\ item[i].pc = "sent"
  /\ LET u == dbUpdateMessageStatus(store, rows, i, "sent")
     IN  /\ rows' = u.rows
         /\ item' = [item EXCEPT ![i] = IF u.result = "ok"
                                          THEN [@ EXCEPT !.pc = "completed"]
                                          ELSE BullFail(@, now)]
  /\ UNCHANGED <<now, store, hash, byTime, statusSet, last, prev>>
  /\ UNCHANGED <<lateVars, mode, poll, runs, by, early, routeVars, unitVars>>

\* processScheduledMessagesJob: the listed messages whose scheduledTime <= now
Due(r, t) == {i \in getScheduledMessages(r) : r[i].scheduledTime <= t}

\* Bree starts the worker (server.mjs calls bree.start() whatever
\* QUEUE_CONNECTION is): getScheduledMessages, now = new Date(), and one
\* concurrent branch per due message
PollerStart ==
  /\ mode \in {"cron", "redis"}
  /\ poll.pc = "idle"
  /\ poll' = [pc |-> "run",
              msgs |-> [i \in Ids |-> IF i \in Due(rows, now) THEN "wait" ELSE "none"]]
  /\ UNCHANGED <<lateVars, storeVars, mode, item, runs, by, early, routeVars, unitVars>>

\* (variant) a throw of sendMessageWithRetry is not caught: it ends the run
PollerSendUncaught(i, ok) ==
  /\ poll.pc = "run"
  /\ poll.msgs[i] = "wait"
  /\ Attempt(i, "poller")
  /\ poll' = IF ok THEN [poll EXCEPT !.msgs[i] = "sent"]
                   ELSE [poll EXCEPT !.pc = "idle", !.msgs[i] = "done"]
  /\ UNCHANGED <<lateVars, storeVars, mode, item, runs, routeVars, unitVars>>

\* a branch: sleep(getDelayMs()); sendMessageWithRetry; a throw is caught and logged
PollerSend(i, ok) ==
  /\ poll.pc = "run"
  /\ poll.msgs[i] = "wait"
  /\ Attempt(i, "poller")
  /\ poll' = [poll EXCEPT !.msgs[i] = IF ok THEN "sent" ELSE "done"]
  /\ UNCHANGED <<lateVars, storeVars, mode, item, runs, routeVars, unitVars>>

\* (variant) the status is written for a listed job whether or not its send
\* returned
PollerUpdateUnsent(i) ==
  /\ poll.pc = "run"
  /\ poll.msgs[i] \in {"wait", "sent"}
  /\ rows' = dbUpdateMessageStatus(store, rows, i, "sent").rows
  /\ poll' = [poll EXCEPT !.msgs[i] = "done"]
  /\ UNCHANGED <<now, store, hash, byTime, statusSet, last, prev>>
  /\ UNCHANGED <<lateVars, mode, item, runs, by, early, routeVars, unitVars>>

\* a branch after a successful send: updateMessageStatus(_id, "sent"), errors caught
PollerUpdate(i) ==
  /\ poll.pc = "run"
  /\ poll.msgs[i] = "sent"
  /\ rows' = dbUpdateMessageStatus(store, rows, i, "sent").rows
  /\ poll' = [poll EXCEPT !.msgs[i] = "done"]
  /\ UNCHANGED <<now, store, hash, byTime, statusSet, last, prev>>
  /\ UNCHANGED <<lateVars, mode, item, runs, by, early, routeVars, unitVars>>

\* Promise.all resolved; process.exit(0)
PollerExit ==
  /\ poll.pc = "run"
  /\ \A i \in Ids : poll.msgs[i] \in {"none", "done"}
  /\ poll' = [poll EXCEPT !.pc = "idle"]
  /\ UNCHANGED <<lateVars, storeVars, mode, item, runs, by, early, routeVars, unitVars>>

\* WorkflowManager.scheduleMessage: saveScheduledMessage (Redis), then
\* client.start({url, body}); when start rejects the error is logged and
\* rethrown, the saved job stays as it is
ScheduleMessage(delay, started) ==
  /\ mode = "workflow"
  /\ FreeIds(hash) # {}
  /\ LET id == NewId(hash)
         s == redisSaveScheduledMessage(hash, byTime, statusSet, id, now, delay)
     IN  /\ hash' = s.hash
         /\ byTime' = s.byTime
         /\ statusSet' = s.statusSet
         /\ runs' = IF started
                      THEN [runs EXCEPT ![id] =
                              [pc |-> IF delay > 0 THEN "sleep" ELSE "send",
                               delay |-> delay, at |-> now]]
                      ELSE runs
  /\ UNCHANGED <<now, store, rows, last, prev>>
  /\ UNCHANGED <<lateVars, mode, item, poll, by, early, routeVars, unitVars>>

\* @upstash/workflow context.sleep(stepName, duration) resumes the run once
\* the duration has passed.  messageWorkflow calls context.sleep(delay): the
\* delay stands where the step name goes and no duration is passed, so the
\* call itself fixes no lower bound on the wait.
sleepElapsed(calledAt, hasDuration, duration, t) ==
  hasDuration => t >= calledAt + duration

\* messageWorkflow step 1: if (delay > 0) await context.sleep(delay)
WorkflowWake(i) ==
  /\ runs[i].pc = "sleep"
  /\ sleepElapsed(runs[i].at, FALSE, runs[i].delay, now)
  /\ runs' = [runs EXCEPT ![i].pc = "send"]
  /\ UNCHANGED <<lateVars, storeVars, mode, item, poll, by, early, routeVars, unitVars>>

\* messageWorkflow step 2 "send-message": sendMessageWithRetry; a failure is
\* rethrown and the step is either run again by the workflow service or the
\* run ends failed
WorkflowSend(i, ok, again) ==
  /\ runs[i].pc = "send"
  /\ Attempt(i, "broker")
  /\ runs' = [runs EXCEPT ![i].pc = IF ok THEN "update"
                                    ELSE IF again THEN "send" ELSE "failed"]
  /\ UNCHANGED <<lateVars, storeVars, mode, item, poll, routeVars, unitVars>>

\* messageWorkflow step 3 "update-status": updateMessageStatus(messageId,
\* "sent"); an error is logged and swallowed
WorkflowUpdate(i) ==
  /\ runs[i].pc = "update"
  /\ LET u == redisUpdateMessageStatus(hash, byTime, statusSet, i, "sent")
     IN  /\ hash' = u.hash
         /\ byTime' = u.byTime
         /\ statusSet' = u.statusSet
  /\ runs' = [runs EXCEPT ![i].pc = "done"]
  /\ UNCHANGED <<now, store, rows, last, prev>>
  /\ UNCHANGED <<lateVars, mode, item, poll, by, early, routeVars, unitVars>>

\* time passes
Tick ==
  /\ now < MaxTime
  /\ now' = now + 1
  /\ UNCHANGED <<store, rows, hash, byTime, statusSet, last, prev>>
  /\ UNCHANGED <<lateVars, dispatchVars, routeVars, unitVars>>

Next ==
  \/ \E d \in Delays : AddMessageToQueue(d)
  \/ \E i \in Ids, ok \in BOOLEAN : BullSend(i, ok)
  \/ \E i \in Ids : BullUpdate(i)
  \/ PollerStart
  \/ \E i \in Ids, ok \in BOOLEAN : PollerSend(i, ok)
  \/ \E i \in Ids : PollerUpdate(i)
  \/ PollerExit
  \/ \E d \in Delays, started \in BOOLEAN : ScheduleMessage(d, started)
  \/ \E i \in Ids : WorkflowWake(i)
  \/ \E i \in Ids, ok \in BOOLEAN, again \in BOOLEAN : WorkflowSend(i, ok, again)
  \/ \E i \in Ids : WorkflowUpdate(i)
  \/ Tick

Spec == Init /\ [][Next]_vars

\* ------------------------------------------------ claims on the job store
IsUpdate(c, i, s) == c.op = "update" /\ c.id = i /\ c.status = s

\* C1: a job's status only ever goes from scheduled to sent or from scheduled
\* to failed (a new job starts scheduled); a sent or failed job keeps its status.
C1_OnlyScheduledToTerminal ==
  [][\A i \in Ids :
       JobStatus(i)' # JobStatus(i) =>
         \/ JobStatus(i) = "none" /\ JobStatus(i)' = "scheduled"
         \/ JobStatus(i) = "scheduled" /\ JobStatus(i)' \in Terminal]_vars

\* C7: updateStatus with the other terminal status on a sent or failed job
\* fails with Conflict and leaves the stored status as it was.
C7_TerminalFlipIsConflict ==
  [][\A i \in Ids :
       (/\ JobStatus(i) \in Terminal
        /\ last'.op = "update" /\ last'.id = i
        /\ last'.status \in Terminal /\ last'.status # JobStatus(i))
       => (last'.result = "Conflict" /\ JobStatus(i)' = JobStatus(i))]_vars

\* C8: updateStatus(id, sent) on an existing job succeeds and leaves the job
\* sent, the first time and when it is called again right after.
C8_UpdateSentIdempotent ==
  \A i \in Ids :
    /\ (JobStatus(i) # "none" /\ IsUpdate(last, i, "sent"))
         => (last.result = "ok" /\ JobStatus(i) = "sent")
    /\ (JobStatus(i) # "none" /\ IsUpdate(prev, i, "sent") /\ IsUpdate(last, i, "sent"))
         => (prev.result = "ok" /\ last.result = "ok" /\ JobStatus(i) = "sent")

\* C8 witness: updateStatus(id, sent) was called twice in a row on a stored job.
C8_Witness ==
  \E i \in Ids :
    /\ JobStatus(i) = "sent"
    /\ IsUpdate(prev, i, "sent") /\ prev.result = "ok"
    /\ IsUpdate(last, i, "sent") /\ last.result = "ok"

\* C9: updateStatus on an id no job has fails with NotFound (and stores nothing).
C9_UpdateMissingIsNotFound ==
  \A i \in Ids :
    (last.op = "update" /\ last.id = i /\ JobStatus(i) = "none")
      => last.result = "NotFound"

\* The process comes up with an empty job store (connect() creates the file
\* and the scheduled_messages table when they are missing) while the broker
\* still holds what was queued before: a Bull job in its Redis, a workflow run
\* at the workflow service
RequeuedInit ==
  /\ EmptyStore
  /\ mode \in {"cron", "redis", "workflow"}
  /\ store = IF mode = "workflow" THEN "redis" ELSE "sqlite"
  /\ item = [i \in Ids |-> IF mode = "redis" /\ i = MaxJobs
                             THEN [pc |-> "delayed", due |-> 0, made |-> 0]
                             ELSE NoItem]
  /\ poll = [pc |-> "idle", msgs |-> [i \in Ids |-> "none"]]
  /\ runs = [i \in Ids |-> IF mode = "workflow" /\ i = MaxJobs
                             THEN [pc |-> "send", delay |-> 0, at |-> 0]
                             ELSE NoRun]
  /\ by = [i \in Ids |-> {}]
  /\ early = [i \in Ids |-> FALSE]
  /\ routeVersion = "none"
  /\ NoRoute
  /\ NoUnits

RequeuedSpec == RequeuedInit /\ [][Next]_vars

\* ------------------------------------------------------------------ route
\* The `schedule` field of a request body, by what DateTime.fromFormat makes
\* of it: absent, a string that does not parse, or a string naming instant t.
Schedules ==
  {[kind |-> "absent", t |-> 0], [kind |-> "malformed", t |-> 0]}
    \cup {[kind |-> "time", t |-> t] : t \in Times}

\* validationHelper.isValidScheduleFormat, on the parse outcome
isValidScheduleFormat(s) == s.kind = "time"

\* scheduledTime.toMillis() - now.toMillis(); an invalid DateTime gives NaN
delayOf(s, t) ==
  IF s.kind = "time" THEN [nan |-> FALSE, ms |-> s.t - t]
                     ELSE [nan |-> TRUE, ms |-> 0]

\* (variant) a dispatch that also takes a delay of 0
scheduleDispatchFromZero(s, t) == ~delayOf(s, t).nan /\ delayOf(s, t).ms >= 0

\* scheduleDispatch: `if (delay > 0) { setTimeout(...); return true } return
\* false`; NaN > 0 is false.  The value is what the function returns; the
\* caller below arms the timer exactly when it is TRUE.
scheduleDispatch(s, t) == ~delayOf(s, t).nan /\ delayOf(s, t).ms > 0

RouteInit ==
  /\ EmptyStore
  /\ store = "none"
  /\ mode = "none"
  /\ NoDispatch
  /\ routeVersion \in {"plain", "validated"}
  /\ NoRoute
  /\ NoUnits

Handled(r) == req[r].resp # "none"

\* POST /message handler, whole: (validated generation) 400 on a schedule
\* that is not in the format; `schedule && scheduleDispatch(...)` replies
\* "Message scheduled successfully."; otherwise sendMessageWithRetry now,
\* replying "Message sent successfully." or, when it throws, 500
PostMessage(r, s, ok) ==
  /\ ~Handled(r)
  /\ \A q \in Reqs : q < r => Handled(q)
  /\ LET rejected == /\ routeVersion = "validated"
                     /\ s.kind # "absent"
                     /\ ~isValidScheduleFormat(s)
         armed == s.kind # "absent" /\ scheduleDispatch(s, now)
     IN  /\ req' = [req EXCEPT ![r] =
                      [kind |-> s.kind, t |-> s.t, at |-> now,
                       resp |-> IF rejected THEN "400"
                                ELSE IF armed THEN "scheduled"
                                ELSE IF ok THEN "sent" ELSE "500",
                       sent |-> IF rejected \/ armed THEN "no" ELSE "now"]]
         /\ timers' = IF ~rejected /\ armed
                        THEN timers \cup {[r |-> r, due |-> s.t]}
                        ELSE timers
  /\ UNCHANGED <<lateVars, storeVars, dispatchVars, unitVars, routeVersion>>

\* the setTimeout callback: sendMessageWithRetry; a throw is caught and
\* logged, so both outcomes leave the same state
TimerFire(r) ==
  /\ \E x \in timers :
       /\ x.r = r
       /\ now >= x.due
       /\ timers' = timers \ {x}
  /\ req' = [req EXCEPT ![r].sent = "timer"]
  /\ UNCHANGED <<lateVars, storeVars, dispatchVars, unitVars, routeVersion>>

\* the process is stopped and started again: pending setTimeout callbacks
\* live in process memory only and are gone; the job store is kept
Restart ==
  /\ timers # {}
  /\ timers' = {}
  /\ UNCHANGED <<lateVars, storeVars, dispatchVars, unitVars, routeVersion, req>>

RouteNext ==
  \/ \E r \in Reqs, s \in Schedules, ok \in BOOLEAN : PostMessage(r, s, ok)
  \/ \E r \in Reqs : TimerFire(r)
  \/ Restart
  \/ Tick

RouteSpec == RouteInit /\ [][RouteNext]_vars

\* ----------------------------------------------------------------- sender
\* sendMessageWithRetry: const maxRetries = 3; const baseDelay = 1000
maxRetries == 3
baseDelay == 1000
\* the first generation waits setTimeout(resolve, 1000) after every failure
firstDelay == 1000

RECURSIVE Pow2(_)
\* Math.pow(2, n)
Pow2(n) == IF n <= 0 THEN 1 ELSE 2 * Pow2(n - 1)

ClientStates == {"DISCONNECTED", "CONNECTING", "CONNECTED", "READY"}

\* (variant) a client that always counts as ready
alwaysReady(state) == TRUE

\* whatsappClient.isClientReady
isClientReady(state) == state = "READY"

\* error.message of a rejected attempt, by the substrings the classification
\* looks for in it
Messages ==
  {{}, {"serialize"}, {"timeout"}, {"not found"}, {"invalid"},
   {"serialize", "timeout"}, {"timeout", "invalid"}}

\* new Error("Message send timeout")
TimeoutMessage == {"timeout"}

\* error.message.includes(w)
includes(m, w) == w \in m

\* errors/AppError.mjs
HttpStatusCodes ==
  [OK |-> 200, CREATED |-> 201, BAD_REQUEST |-> 400, UNAUTHORIZED |-> 401,
   FORBIDDEN |-> 403, NOT_FOUND |-> 404, CONFLICT |-> 409,
   UNPROCESSABLE_ENTITY |-> 422, INTERNAL_SERVER_ERROR |-> 500,
   SERVICE_UNAVAILABLE |-> 503]

\* obj.key in JavaScript: undefined for a key the object does not have
Member(obj, key) ==
  IF key \in DOMAIN obj THEN [defined |-> TRUE, v |-> obj[key]]
                        ELSE [defined |-> FALSE, v |-> 0]

\* the classification of the last error: errorType and statusCode
classify(m) ==
  IF includes(m, "serialize")
    THEN [type |-> "WHATSAPP_ERROR", code |-> Member(HttpStatusCodes, "SERVICE_UNAVAILABLE")]
  ELSE IF includes(m, "timeout")
    THEN [type |-> "NETWORK_ERROR", code |-> Member(HttpStatusCodes, "REQUEST_TIMEOUT")]
  ELSE IF includes(m, "not found") \/ includes(m, "invalid")
    THEN [type |-> "VALIDATION_ERROR", code |-> Member(HttpStatusCodes, "BAD_REQUEST")]
  ELSE [type |-> "WHATSAPP_ERROR", code |-> Member(HttpStatusCodes, "INTERNAL_SERVER_ERROR")]

\* ErrorHandler.sendErrorResponse: const statusCode = error.statusCode || 500
sendErrorResponse(code) == IF code.defined /\ code.v # 0 THEN code.v ELSE 500

\* (variant) the same wait after every failed attempt
backoffFlat(version, attempt) == baseDelay

\* the wait after failed attempt number `attempt`
backoff(version, attempt) ==
  IF version = "enhanced" THEN baseDelay * Pow2(attempt - 1) ELSE firstDelay

\* the stores, the dispatchers and the route are not in use
NoEngine ==
  /\ EmptyStore
  /\ store = "none"
  /\ mode = "none"
  /\ NoDispatch
  /\ routeVersion = "none"
  /\ NoRoute

\* one job handed to sendMessageWithRetry by the Bull handler
DeliverInit ==
  /\ NoEngine
  /\ NoLate
  /\ clientState \in ClientStates
  /\ sendVersion \in {"first", "enhanced"}
  /\ exec = NoExec
  /\ flight = {}
  /\ tries = 0
  /\ sends = 0
  /\ codec = NoCodec
  /\ check = NoCheck

\* the client.sendMessage call the running sendMessageWithRetry is awaiting
Awaited == [t |-> tries, k |-> exec.attempt + 1]

\* attempt exec.attempt + 1 begins: client.sendMessage(chatId, content, options)
StartAttempt(e, t) ==
  /\ exec' = [e EXCEPT !.pc = "sending", !.calls = @ + 1]
  /\ flight' = flight \cup {[t |-> t, k |-> e.attempt + 1]}
  /\ sends' = sends + 1

\* the catch block: attempt++; on the last attempt throw (the enhanced
\* generation an AppError with the classification, the first one the error
\* itself); otherwise wait before the next attempt
Fail(m) ==
  LET n == exec.attempt + 1
  IN  IF n >= maxRetries
        THEN IF sendVersion = "enhanced"
               THEN [exec EXCEPT !.pc = "thrown", !.attempt = n, !.result = "AppError",
                                 !.msg = m, !.type = classify(m).type,
                                 !.code = classify(m).code]
               ELSE [exec EXCEPT !.pc = "thrown", !.attempt = n, !.result = "Error",
                                 !.msg = m]
        ELSE [exec EXCEPT !.pc = "backoff", !.attempt = n, !.msg = m,
                          !.waits = Append(@, backoff(sendVersion, n))]

\* sendMessageWithRetry is called (by the Bull handler: again after a throw,
\* `attempts` times in all); the enhanced generation throws at once when the
\* client is not ready
Deliver ==
  /\ \/ exec.pc = "idle"
     \/ exec.pc = "thrown" /\ tries < BullAttempts
  /\ tries' = tries + 1
  /\ IF sendVersion = "enhanced" /\ ~isClientReady(clientState)
       THEN /\ exec' = [NoExec EXCEPT !.pc = "thrown", !.result = "AppError",
                                      !.state = clientState,
                                      !.type = "WHATSAPP_ERROR",
                                      !.code = Member(HttpStatusCodes, "SERVICE_UNAVAILABLE")]
            /\ UNCHANGED <<flight, sends>>
       ELSE StartAttempt([NoExec EXCEPT !.state = clientState], tries + 1)
  /\ UNCHANGED <<lateVars, storeVars, dispatchVars, routeVars, clientState, sendVersion, codec, check>>

\* a client.sendMessage call settles; only the awaited one is still listened to
SendSettle(c, ok, m) ==
  /\ c \in flight
  /\ flight' = flight \ {c}
  /\ exec' = IF exec.pc = "sending" /\ c = Awaited
               THEN IF ok THEN [exec EXCEPT !.pc = "returned", !.result = "ok"]
                          ELSE Fail(m)
               ELSE exec
  /\ UNCHANGED <<lateVars, storeVars, dispatchVars, routeVars, clientState, sendVersion, tries, sends, codec, check>>

\* the 30000 ms timer of the awaited attempt rejects the race; nothing is
\* done about the client.sendMessage call, which stays as it is
SendTimeout ==
  /\ sendVersion = "enhanced"
  /\ exec.pc = "sending"
  /\ exec' = Fail(TimeoutMessage)
  /\ UNCHANGED <<lateVars, storeVars, dispatchVars, routeVars, clientState, sendVersion, flight, tries, sends, codec, check>>

\* the wait before the next attempt is over
BackoffElapsed ==
  /\ exec.pc = "backoff"
  /\ StartAttempt(exec, tries)
  /\ UNCHANGED <<lateVars, storeVars, dispatchVars, routeVars, clientState, sendVersion, tries, codec, check>>

\* client.on("qr" | "ready" | "authenticated" | "auth_failure" | "disconnected")
ClientEvent(state) ==
  /\ clientState # state
  /\ clientState' = state
  /\ UNCHANGED <<lateVars, storeVars, dispatchVars, routeVars, sendVersion, exec, flight, tries, sends, codec, check>>

DeliverNext ==
  \/ Deliver
  \/ \E c \in [t : 1..BullAttempts, k : 1..maxRetries], ok \in BOOLEAN, m \in Messages :
       SendSettle(c, ok, m)
  \/ SendTimeout
  \/ BackoffElapsed
  \/ \E state \in ClientStates : ClientEvent(state)

DeliverSpec == DeliverInit /\ [][DeliverNext]_vars

\* the timers of the process do fire; a client.sendMessage call may never settle
FairDeliverSpec ==
  DeliverSpec /\ WF_vars(SendTimeout) /\ WF_vars(BackoffElapsed)

\* ------------------------------------------------- stored job, round trip
\* JavaScript values: a string with its text, an object named by the body of
\* its JSON text, null, undefined
Str(v) == [kind |-> "string", v |-> v]
Obj(v) == [kind |-> "object", v |-> v]
Null == [kind |-> "null", v |-> ""]
Undefined == [kind |-> "undefined", v |-> ""]

\* content: a text, the empty text, a text that is itself JSON, a media
\* descriptor, a location descriptor
Contents ==
  {Str("hello"), Str(""), Str("{a:1}"),
   Obj("mimetype:image/png,data:AAAA"), Obj("latitude:1,longitude:2")}

\* options: undefined, null, {}, an object with a field
OptionsSet == {Undefined, Null, Obj(""), Obj("caption:x")}

JsonValues == Contents \cup OptionsSet

\* JSON.stringify(x): the text, or undefined for undefined
JSONstringify(x) ==
  CASE x.kind = "string" -> Str("\"" \o x.v \o "\"")
    [] x.kind = "object" -> Str("{" \o x.v \o "}")
    [] x.kind = "null" -> Str("null")
    [] OTHER -> Undefined

\* JSON.parse(text): the value with that JSON text; SyntaxError otherwise
JSONparse(t) ==
  IF \E x \in JsonValues : JSONstringify(x) = t
    THEN CHOOSE x \in JsonValues : JSONstringify(x) = t
    ELSE [kind |-> "SyntaxError", v |-> t.v]

\* a value in a condition or left of ||
truthy(x) == x.kind = "object" \/ (x.kind = "string" /\ x.v # "")

\* dbHelper (SQLite) saveScheduledMessage: the content and options columns
sqliteEncode(content, options) ==
  [content |-> IF content.kind = "string" THEN content ELSE JSONstringify(content),
   options |-> IF truthy(options) THEN JSONstringify(options) ELSE Null,
   status |-> "scheduled"]

\* dbHelper (SQLite) getScheduledMessages: content: row.content,
\* options: row.options ? JSON.parse(row.options) : null
sqliteDecode(row) ==
  [content |-> row.content,
   options |-> IF truthy(row.options) THEN JSONparse(row.options) ELSE Null,
   status |-> row.status]

\* redisHelper saveScheduledMessage: content: JSON.stringify(content),
\* options: JSON.stringify(options); a field whose value is undefined holds
\* nothing to read back
redisEncode(content, options) ==
  [content |-> JSONstringify(content),
   options |-> JSONstringify(options),
   status |-> "scheduled"]

\* redisHelper getScheduledMessages / getMessageById:
\* JSON.parse(messageData.content || '{}'), JSON.parse(messageData.options || '{}')
redisDecode(fields) ==
  [content |-> JSONparse(IF truthy(fields.content) THEN fields.content ELSE Str("{}")),
   options |-> JSONparse(IF truthy(fields.options) THEN fields.options ELSE Str("{}")),
   status |-> fields.status]

\* MongoDB helpers: insertOne({chatId, content, options, ...}); the driver
\* writes an undefined field as null
mongoEncode(content, options) ==
  [content |-> IF content.kind = "undefined" THEN Null ELSE content,
   options |-> IF options.kind = "undefined" THEN Null ELSE options,
   status |-> "scheduled"]

\* MongoDB helpers: find({status: "scheduled"}).toArray()
mongoDecode(doc) == doc

CodecInit ==
  /\ NoEngine
  /\ NoLate
  /\ clientState = "READY"
  /\ sendVersion = "none"
  /\ exec = NoExec
  /\ flight = {}
  /\ tries = 0
  /\ sends = 0
  /\ \E st \in {"sqlite", "mongo", "redis"}, c \in Contents, o \in OptionsSet :
       codec = [pc |-> "input", store |-> st, content |-> c, options |-> o,
                row |-> [content |-> Null, options |-> Null, status |-> "none"],
                out |-> [content |-> Null, options |-> Null, status |-> "none"]]
  /\ check = NoCheck

\* saveScheduledMessage(chatId, content, options, delay) of the store
CodecSave ==
  /\ codec.pc = "input"
  /\ codec' = [codec EXCEPT
       !.pc = "saved",
       !.row = CASE codec.store = "sqlite" -> sqliteEncode(codec.content, codec.options)
                 [] codec.store = "redis" -> redisEncode(codec.content, codec.options)
                 [] OTHER -> mongoEncode(codec.content, codec.options)]
  /\ UNCHANGED <<lateVars, storeVars, dispatchVars, routeVars, execVars, check>>

\* the job as getScheduledMessages hands it to the dispatcher
CodecRead ==
  /\ codec.pc = "saved"
  /\ codec' = [codec EXCEPT
       !.pc = "read",
       !.out = CASE codec.store = "sqlite" -> sqliteDecode(codec.row)
                 [] codec.store = "redis" -> redisDecode(codec.row)
                 [] OTHER -> mongoDecode(codec.row)]
  /\ UNCHANGED <<lateVars, storeVars, dispatchVars, routeVars, execVars, check>>

CodecNext == CodecSave \/ CodecRead

CodecSpec == CodecInit /\ [][CodecNext]_vars

\* ------------------------------------------------------- schedule format
\* A schedule string is a sequence of tokens: a run of n digits with value v
\* (`t` is "d"), or one other character (`t` is the character; "x" is a letter).
Digits(n, v) == [t |-> "d", n |-> n, v |-> v]
Char(c) == [t |-> c, n |-> 1, v |-> 0]

\* the fields of a date-time written with separator dsep, in the order
\* year-month-day ("ymd") or day-month-year ("dmy"), the hour with hn digits
DateTimeText(dsep, order, y, mo, d, hn, h, mi, se) ==
  (IF order = "ymd"
     THEN <<Digits(4, y), Char(dsep), Digits(2, mo), Char(dsep), Digits(2, d)>>
     ELSE <<Digits(2, d), Char(dsep), Digits(2, mo), Char(dsep), Digits(4, y)>>)
  \o <<Char(" "), Digits(hn, h), Char(":"), Digits(2, mi), Char(":"), Digits(2, se)>>

\* the values isValidScheduleFormat is given: strings, null, undefined
ScheduleInputs ==
  {[kind |-> "string", shape |-> "datetime", dsep |-> dsep, order |-> order,
    y |-> y, mo |-> mo, d |-> d, hn |-> hr[1], h |-> hr[2], mi |-> mi, se |-> se,
    text |-> DateTimeText(dsep, order, y, mo, d, hr[1], hr[2], mi, se)] :
      dsep \in {"-", "/"}, order \in {"ymd", "dmy"}, y \in {2023, 2024},
      mo \in {2, 12, 13}, d \in {0, 29, 31},
      hr \in {<<2, 0>>, <<1, 9>>, <<2, 23>>, <<2, 24>>},
      mi \in {0, 59, 60}, se \in {0, 60}}
  \cup
  {[kind |-> k[1], shape |-> k[2], dsep |-> "-", order |-> "ymd",
    y |-> 0, mo |-> 0, d |-> 0, hn |-> 0, h |-> 0, mi |-> 0, se |-> 0,
    text |-> k[3]] :
      k \in {<<"string", "dateOnly",
               <<Digits(4, 2024), Char("-"), Digits(2, 12), Char("-"), Digits(2, 25)>> >>,
             <<"string", "timeOnly",
               <<Digits(2, 10), Char(":"), Digits(2, 30), Char(":"), Digits(2, 0)>> >>,
             <<"string", "text", <<Char("x"), Char("x"), Char("x")>> >>,
             <<"string", "empty", <<>> >>,
             <<"null", "null", <<>> >>,
             <<"undefined", "undefined", <<>> >>}}

\* luxon: the days of month m of year y
daysInMonth(y, m) ==
  IF m = 2
    THEN IF (y % 4 = 0 /\ y % 100 # 0) \/ y % 400 = 0 THEN 29 ELSE 28
    ELSE IF m \in {4, 6, 9, 11} THEN 30 ELSE 31

\* DateTime.fromFormat(text, "yyyy-MM-dd H:mm:ss").isValid for a string: the
\* whole text matches \d{4}-\d{2}-\d{2} \d{1,2}:\d{2}:\d{2} and the fields
\* are in range (hour 24 only as 24:00:00)
fromFormatIsValid(text) ==
  /\ Len(text) = 11
  /\ text[1].t = "d" /\ text[1].n = 4
  /\ text[2].t = "-"
  /\ text[3].t = "d" /\ text[3].n = 2
  /\ text[4].t = "-"
  /\ text[5].t = "d" /\ text[5].n = 2
  /\ text[6].t = " "
  /\ text[7].t = "d" /\ text[7].n \in {1, 2}
  /\ text[8].t = ":"
  /\ text[9].t = "d" /\ text[9].n = 2
  /\ text[10].t = ":"
  /\ text[11].t = "d" /\ text[11].n = 2
  /\ text[3].v \in 1..12
  /\ text[5].v \in 1..daysInMonth(text[1].v, text[3].v)
  /\ \/ text[7].v \in 0..23
     \/ text[7].v = 24 /\ text[9].v = 0 /\ text[11].v = 0
  /\ text[9].v \in 0..59
  /\ text[11].v \in 0..59

\* isValidScheduleFormat(schedule) of validationHelper.mjs ("plain") and of
\* unnamed/part_006 ("guarded": `if (!schedule || typeof schedule !==
\* "string") return false`).  DateTime.fromFormat throws for an input that is
\* undefined (InvalidArgumentError) or null (TypeError on input.match).
validate(version, x) ==
  IF version = "guarded" /\ (x.kind # "string" \/ x.text = <<>>) THEN "false"
  ELSE IF x.kind # "string" THEN "throws"
  ELSE IF fromFormatIsValid(x.text) THEN "true" ELSE "false"

FormatInit ==
  /\ NoEngine
  /\ NoLate
  /\ clientState = "READY"
  /\ sendVersion = "none"
  /\ exec = NoExec
  /\ flight = {}
  /\ tries = 0
  /\ sends = 0
  /\ codec = NoCodec
  /\ \E version \in {"plain", "guarded"}, x \in ScheduleInputs :
       check = [pc |-> "call", version |-> version, input |-> x, result |-> "none"]

\* the call of isValidScheduleFormat
Validate ==
  /\ check.pc = "call"
  /\ check' = [check EXCEPT !.pc = "done",
                            !.result = validate(check.version, check.input)]
  /\ UNCHANGED <<lateVars, storeVars, dispatchVars, routeVars, execVars, codec>>

FormatNext == Validate

FormatSpec == FormatInit /\ [][FormatNext]_vars

\* ---------------------------------------------- claims on the dispatching
\* the jobs the worker run that has just ended had found due
Batch == {i \in Ids : poll.msgs[i] = "done"}

\* a stored job still has something that will call sendMessageWithRetry for
\* it: the poller (which scans the store), a queued Bull job, a workflow run
Triggered(i) ==
  \/ mode \in {"cron", "redis"}
  \/ item[i].pc \in {"delayed", "sent"}
  \/ runs[i].pc \in {"sleep", "send"}

\* C3: no persisted job is dropped without ever being attempted: a job that
\* is stored as scheduled and has had no delivery attempt is still going to
\* get one.
C3_NoJobWithoutTrigger ==
  \A i \in Ids : (JobStatus(i) = "scheduled" /\ by[i] = {}) => Triggered(i)

\* C4: in the poller variant, once a tick that found two jobs due at the same
\* instant has ended, both jobs have a terminal status, whatever their sends did.
C4_TickLeavesBothTerminal ==
  (/\ mode = "cron"
   /\ poll.pc = "idle"
   /\ Cardinality(Batch) = 2
   /\ \A i, j \in Batch : rows[i].scheduledTime = rows[j].scheduledTime)
  => \A i \in Batch : JobStatus(i) \in Terminal

\* C5: no send is attempted for a scheduled job before its scheduledTime.
C5_NoSendBeforeScheduledTime ==
  \A i \in Ids : ~early[i]

\* C10: the delivery of a persisted job is never triggered both by the
\* interval poller and by the queue consumer.
C10_OneBackendPerJob ==
  \A i \in Ids : ~({"poller", "broker"} \subseteq by[i])

\* ---------------------------------------------------- claims on the route
\* something is still going to deliver request r: an armed timer, or a job
\* stored as scheduled
Pending(r) ==
  \/ \E x \in timers : x.r = r
  \/ \E i \in Ids : JobStatus(i) = "scheduled"

\* C2: a request acknowledged as scheduled whose delivery has not been
\* attempted yet still has something that will attempt it, a stored scheduled
\* job included, also after the process has been restarted.
C2_ScheduledAckSurvivesRestart ==
  \A r \in Reqs : (req[r].resp = "scheduled" /\ req[r].sent = "no") => Pending(r)

\* the request named an instant that was not after the time it was handled
PastSchedule(r) ==
  Handled(r) /\ req[r].kind = "time" /\ req[r].t <= req[r].at

C11_SendsWithinMaxRetries ==
  sends <= maxRetries

Attempting == sendVersion = "enhanced" /\ exec.pc # "idle" /\ exec.state = "READY"

C14_DeliverTerminates ==
  (exec.pc = "sending") ~> (exec.pc \in {"returned", "thrown"})

\* C15: at most one client.sendMessage call of a job is in flight.
C15_OneSendInFlight ==
  Cardinality(flight) <= 1

\* C16: the error thrown after the last attempt carries the class of the last
\* error message and a defined status code: 503 for a serialization failure,
\* the request-timeout code for a timeout, 400 for a destination that is not
\* found or invalid, 500 for anything else.
C16_ExhaustionIsClassified ==
  (sendVersion = "enhanced" /\ exec.pc = "thrown" /\ exec.attempt = maxRetries) =>
    /\ exec.result = "AppError"
    /\ exec.code.defined
    /\ includes(exec.msg, "serialize") => exec.code.v = 503
    /\ (~includes(exec.msg, "serialize") /\ includes(exec.msg, "timeout")) =>
         sendErrorResponse(exec.code) \notin {400, 500, 503}
    /\ (exec.msg \in {{"not found"}, {"invalid"}}) => exec.code.v = 400
    /\ exec.msg = {} => exec.code.v = 500

\* ----------------------------------------------- claims on the job stores
\* the due jobs as the deployed store lists them at instant t: dbHelper's
\* getScheduledMessages with the poller's scheduledTime <= now, redisHelper's
\* getScheduledMessages with its own range query
listDue(t) ==
  IF store = "redis" THEN redisGetScheduledMessages(hash, byTime, t)
                     ELSE Due(rows, t)

\* C17: at every instant the due list is exactly the set of stored jobs with
\* status scheduled and scheduledTime <= that instant.
C17_ListDueIsExact ==
  \A t \in 0..(MaxTime + MaxDelay) :
    listDue(t) = {i \in Ids : JobStatus(i) = "scheduled" /\ Job(i).scheduledTime <= t}

\* C18: a job read back from the store has status scheduled and exactly the
\* content and options that were passed to saveScheduledMessage.
C18_RoundTrip ==
  codec.pc = "read" =>
    /\ codec.out.status = "scheduled"
    /\ codec.out.content = codec.content
    /\ codec.out.options = codec.options

\* C19: when the status write after a successful send finds no job, the
\* handler that made it ends normally: the Bull job is completed, the poller
\* branch is done, the workflow run is done.
C19_MissingJobDoesNotFailHandler ==
  [][\A i \in Ids :
       (JobStatus(i) = "none" /\ UNCHANGED <<rows, hash>>) =>
         /\ (item[i].pc = "sent" /\ item'[i].pc # "sent") => item'[i].pc = "completed"
         /\ (poll.msgs[i] = "sent" /\ poll'.msgs[i] # "sent") => poll'.msgs[i] = "done"
         /\ (runs[i].pc = "update" /\ runs'[i].pc # "update") => runs'[i].pc = "done"]_vars

\* ------------------------------------------ claims on the schedule format
\* a real date-time written as YYYY-MM-DD HH:MM:SS
WellFormed(x) ==
  /\ x.kind = "string" /\ x.shape = "datetime"
  /\ x.dsep = "-" /\ x.order = "ymd" /\ x.hn = 2
  /\ x.mo \in 1..12 /\ x.d \in 1..daysInMonth(x.y, x.mo)
  /\ x.h \in 0..23 /\ x.mi \in 0..59 /\ x.se \in 0..59

\* date only, time only, wrong separators, wrong field order, non-date text,
\* the empty string, null, undefined
Malformed(x) ==
  \/ x.shape \in {"dateOnly", "timeOnly", "text", "empty", "null", "undefined"}
  \/ x.shape = "datetime" /\ (x.dsep # "-" \/ x.order # "ymd")

\* C20: isValidScheduleFormat returns true for every well-formed date-time
\* and returns false, without throwing, for every malformed input.
C20_FormatCheckIsTotal ==
  check.pc = "done" =>
    /\ WellFormed(check.input) => check.result = "true"
    /\ Malformed(check.input) => check.result = "false"

\* ---------------------------------------------------------------------
\* The in-memory cache (unnamed/part_003, helpers/cache).  Date.now() is the
\* clock `now`.  The hit and miss counters are left out: nothing but
\* getStats reads them.
\* ---------------------------------------------------------------------
MaxCalls == 2
Callers == 1..MaxCalls
Args == {"p", "q"}
\* const key = `${keyPrefix}:${JSON.stringify(args)}`
keyOf(a) == "test:" \o a
Keys == {keyOf(a) : a \in Args}
\* cached data; "null" is the JavaScript null
CacheData == {"v1", "null"}
Ttls == 0..MaxDelay

NoEntry == [present |-> FALSE, data |-> "null", timestamp |-> 0, ttl |-> 0]

\* (variant) an entry never expires
expiredNever(entry, t) == FALSE
\* Date.now() - entry.timestamp > entry.ttl
expired(entry, t) == t - entry.timestamp > entry.ttl

\* Cache.get: the map after the call and the value returned
cacheGet(st, key, t) ==
  LET entry == st[key]
  IN  IF ~entry.present THEN [store |-> st, result |-> "null"]
      ELSE IF expired(entry, t)
             THEN [store |-> [st EXCEPT ![key] = NoEntry], result |-> "null"]
             ELSE [store |-> st, result |-> entry.data]

\* Cache.set
cacheSet(st, key, data, ttl, t) ==
  [st EXCEPT ![key] = [present |-> TRUE, data |-> data, timestamp |-> t, ttl |-> ttl]]

\* Cache.has
cacheHas(st, key, t) ==
  LET entry == st[key]
  IN  IF ~entry.present THEN [store |-> st, result |-> FALSE]
      ELSE IF expired(entry, t)
             THEN [store |-> [st EXCEPT ![key] = NoEntry], result |-> FALSE]
             ELSE [store |-> st, result |-> TRUE]

\* Cache.delete
cacheDelete(st, key) == [st EXCEPT ![key] = NoEntry]

\* Cache.cleanup, run by the constructor's interval
cacheCleanup(st, t) ==
  [k \in Keys |-> IF st[k].present /\ expired(st[k], t) THEN NoEntry ELSE st[k]]

\* Cache.clear
cacheClear(st) == [k \in Keys |-> NoEntry]

\* history of a key: the last set(k, v, ttl), forgotten when k is deleted;
\* got is the get that has just returned
NoSet == [live |-> FALSE, v |-> "null", at |-> 0, ttl |-> 0]
NoGot == [pc |-> "none", key |-> "", at |-> 0, result |-> "null",
          last |-> NoSet, gone |-> TRUE]
NoWrapped == [fn |-> "none", ttl |-> 0,
              call |-> [c \in Callers |->
                          [pc |-> "idle", arg |-> "", at |-> 0, ran |-> FALSE,
                           result |-> "null"]]]

\* the module's cache = new Cache(), empty
CacheInit ==
  /\ NoEngine
  /\ clientState = "READY"
  /\ sendVersion = "none"
  /\ exec = NoExec
  /\ flight = {}
  /\ tries = 0
  /\ sends = 0
  /\ codec = NoCodec
  /\ check = NoCheck
  /\ cache = [k \in Keys |-> NoEntry]
  /\ cacheLog = [set |-> [k \in Keys |-> NoSet], got |-> NoGot]
  /\ wrapped = NoWrapped
  /\ cron = <<>>
  /\ rop = NoOp
  /\ batch = NoBatch
  /\ issued = {}

CacheSet(k, v, ttl) ==
  /\ cache' = cacheSet(cache, k, v, ttl, now)
  /\ cacheLog' = [set |-> [cacheLog.set EXCEPT
                              ![k] = [live |-> TRUE, v |-> v, at |-> now, ttl |-> ttl]],
                  got |-> NoGot]
  /\ UNCHANGED <<storeVars, dispatchVars, routeVars, unitVars, wrapped, cron, rop, batch, issued>>

CacheGet(k) ==
  LET r == cacheGet(cache, k, now)
  IN  /\ cache' = r.store
      /\ cacheLog' = [cacheLog EXCEPT
                        !.got = [pc |-> "done", key |-> k, at |-> now,
                                 result |-> r.result, last |-> cacheLog.set[k],
                                 gone |-> ~r.store[k].present]]
      /\ UNCHANGED <<storeVars, dispatchVars, routeVars, unitVars, wrapped, cron, rop, batch, issued>>

CacheHas(k) ==
  /\ cache' = cacheHas(cache, k, now).store
  /\ cache' # cache
  /\ cacheLog' = [cacheLog EXCEPT !.got = NoGot]
  /\ UNCHANGED <<storeVars, dispatchVars, routeVars, unitVars, wrapped, cron, rop, batch, issued>>

CacheDelete(k) ==
  /\ cache[k].present
  /\ cache' = cacheDelete(cache, k)
  /\ cacheLog' = [set |-> [cacheLog.set EXCEPT ![k] = NoSet], got |-> NoGot]
  /\ UNCHANGED <<storeVars, dispatchVars, routeVars, unitVars, wrapped, cron, rop, batch, issued>>

CacheCleanup ==
  /\ cache' = cacheCleanup(cache, now)
  /\ cache' # cache
  /\ cacheLog' = [cacheLog EXCEPT !.got = NoGot]
  /\ UNCHANGED <<storeVars, dispatchVars, routeVars, unitVars, wrapped, cron, rop, batch, issued>>

CacheClear ==
  /\ \E k \in Keys : cache[k].present
  /\ cache' = cacheClear(cache)
  /\ cacheLog' = [set |-> [k \in Keys |-> NoSet], got |-> NoGot]
  /\ UNCHANGED <<storeVars, dispatchVars, routeVars, unitVars, wrapped, cron, rop, batch, issued>>

\* Date.now() advances
CacheTick ==
  /\ now < MaxTime
  /\ now' = now + 1
  /\ cacheLog' = [cacheLog EXCEPT !.got = NoGot]
  /\ UNCHANGED <<store, rows, hash, byTime, statusSet, last, prev>>
  /\ UNCHANGED <<dispatchVars, routeVars, unitVars, cache, wrapped, cron, rop, batch, issued>>

CacheNext ==
  \/ \E k \in Keys, v \in CacheData, ttl \in Ttls : CacheSet(k, v, ttl)
  \/ \E k \in Keys : CacheGet(k)
  \/ \E k \in Keys : CacheHas(k)
  \/ \E k \in Keys : CacheDelete(k)
  \/ CacheCleanup
  \/ CacheClear
  \/ CacheTick

CacheSpec == CacheInit /\ [][CacheNext]_vars

\* C21: a get of k returns the value of the last set(k, v, ttl) when k was
\* not deleted since and at most ttl has passed since that set; otherwise (never
\* set, deleted, or older than its ttl) it returns null, and after the get of an
\* expired entry the key is no longer in the store.
C21_GetReturnsLiveValue ==
  LET g == cacheLog.got
  IN  g.pc = "done" =>
        IF g.last.live /\ g.at - g.last.at <= g.last.ttl
          THEN g.result = g.last.v
          ELSE g.result = "null" /\ g.gone

\* a get found an entry older than its ttl and removed it
C21_Witness ==
  LET g == cacheLog.got
  IN  /\ g.pc = "done"
      /\ g.last.live
      /\ g.last.v # "null"
      /\ g.at - g.last.at > g.last.ttl
      /\ g.result = "null"
      /\ g.gone

\* ---------------------------------------------------------------------
\* withCache(keyPrefix, ttl)(fn): the wrapped function.  A call runs up to
\* `await fn(...)` in one step and from the resolution of fn to its return in
\* another, so calls of several callers interleave at the await.
\* ---------------------------------------------------------------------
\* what the wrapped fn resolves with: a value made from its argument, or null
Fns == {"value", "null"}
fnResult(f, a) == IF f = "value" THEN "r:" \o a ELSE "null"

WrapInit ==
  /\ NoEngine
  /\ clientState = "READY"
  /\ sendVersion = "none"
  /\ exec = NoExec
  /\ flight = {}
  /\ tries = 0
  /\ sends = 0
  /\ codec = NoCodec
  /\ check = NoCheck
  /\ cache = [k \in Keys |-> NoEntry]
  /\ cacheLog = [set |-> [k \in Keys |-> NoSet], got |-> NoGot]
  /\ \E f \in Fns, ttl \in Ttls : wrapped = [NoWrapped EXCEPT !.fn = f, !.ttl = ttl]
  /\ cron = <<>>
  /\ rop = NoOp
  /\ batch = NoBatch
  /\ issued = {}

\* the wrapped function is called: key, cache.get(key); a hit returns the
\* cached value, a miss calls fn and awaits it
WrappedCall(c, a) ==
  /\ wrapped.call[c].pc = "idle"
  /\ LET r == cacheGet(cache, keyOf(a), now)
     IN  /\ cache' = r.store
         /\ wrapped' = [wrapped EXCEPT !.call[c] =
                          IF r.result # "null"
                            THEN [pc |-> "done", arg |-> a, at |-> now, ran |-> FALSE,
                                  result |-> r.result]
                            ELSE [pc |-> "await", arg |-> a, at |-> now, ran |-> TRUE,
                                  result |-> "null"]]
  /\ UNCHANGED <<storeVars, dispatchVars, routeVars, unitVars, cacheLog, cron, rop, batch, issued>>

\* fn resolved: cache.set(key, result, ttl); return result
WrappedReturn(c) ==
  /\ wrapped.call[c].pc = "await"
  /\ LET a == wrapped.call[c].arg
         result == fnResult(wrapped.fn, a)
     IN  /\ cache' = cacheSet(cache, keyOf(a), result, wrapped.ttl, now)
         /\ wrapped' = [wrapped EXCEPT !.call[c].pc = "done", !.call[c].result = result]
  /\ UNCHANGED <<storeVars, dispatchVars, routeVars, unitVars, cacheLog, cron, rop, batch, issued>>

WrapNext ==
  \/ \E c \in Callers, a \in Args : WrappedCall(c, a)
  \/ \E c \in Callers : WrappedReturn(c)
  \/ CacheTick

WrapSpec == WrapInit /\ [][WrapNext]_vars

\* the calls with argument a, and the time of the first of them
CallsOf(a) == {c \in Callers : wrapped.call[c].pc # "idle" /\ wrapped.call[c].arg = a}
FirstCall(a) == CHOOSE t \in Times : /\ \E c \in CallsOf(a) : wrapped.call[c].at = t
                                     /\ \A c \in CallsOf(a) : wrapped.call[c].at >= t

\* C22: among the calls with equal arguments made within ttl of the first of
\* them, overlapping or not, at most one runs the underlying function, and
\* every call that has returned returned the function's result.
C22_UnderlyingRunsOnce ==
  \A a \in Args :
    CallsOf(a) # {} =>
      LET within == {c \in CallsOf(a) : wrapped.call[c].at - FirstCall(a) <= wrapped.ttl}
      IN  /\ Cardinality({c \in within : wrapped.call[c].ran}) <= 1
          /\ \A c \in within :
               wrapped.call[c].pc = "done" =>
                 wrapped.call[c].result = fnResult(wrapped.fn, a)

\* ---------------------------------------------------------------------
\* The node-cron generation of queueHelper (unnamed/part_010) without Redis:
\* addMessageToQueue saves the job and schedules a cron task of its own for
\* it, and processScheduledMessages schedules "* * * * *", whose callback
\* walks the scheduled messages one after the other.  node-cron calls the
\* callback at every matching minute and does not wait for the promise of
\* the previous call.
\* ---------------------------------------------------------------------
MaxTicks == 2
Tickers == 1..MaxTicks

NoTick == [pc |-> "idle", asOf |-> 0, todo |-> <<>>, cur |-> "none"]

\* the ids of a set, ascending: the order in which the rows are returned
RECURSIVE Ascending(_)
Ascending(S) ==
  IF S = {} THEN <<>>
  ELSE LET m == CHOOSE x \in S : \A y \in S : x <= y
       IN  <<m>> \o Ascending(S \ {m})

CronInit ==
  /\ EmptyStore
  /\ mode = "nodecron"
  /\ store = "sqlite"
  /\ NoDispatch
  /\ routeVersion = "none"
  /\ NoRoute
  /\ clientState = "READY"
  /\ sendVersion = "none"
  /\ exec = NoExec
  /\ flight = {}
  /\ tries = 0
  /\ sends = 0
  /\ codec = NoCodec
  /\ check = NoCheck
  /\ cache = <<>>
  /\ cacheLog = <<>>
  /\ wrapped = <<>>
  /\ cron = [tick |-> [k \in Tickers |-> NoTick], task |-> [i \in Ids |-> "none"]]
  /\ rop = NoOp
  /\ batch = NoBatch
  /\ issued = {}

\* addMessageToQueue, useRedis false: saveScheduledMessage, then
\* cron.schedule(cronExpression of the scheduled second, ...)
CronAddMessageToQueue(delay) ==
  /\ FreeIds(rows) # {}
  /\ LET id == NewId(rows)
     IN  /\ rows' = saveScheduledMessage(rows, id, now, delay)
         /\ cron' = [cron EXCEPT !.task[id] = "armed"]
  /\ UNCHANGED <<now, store, hash, byTime, statusSet, last, prev>>
  /\ UNCHANGED <<dispatchVars, routeVars, unitVars, cache, cacheLog, wrapped, rop, batch, issued>>

\* the job's own cron task at its second: sendMessageWithRetry; a throw is
\* caught and logged
TaskSend(i, ok) ==
  /\ cron.task[i] = "armed"
  /\ now = Job(i).scheduledTime
  /\ Attempt(i, "task")
  /\ cron' = [cron EXCEPT !.task[i] = IF ok THEN "sent" ELSE "done"]
  /\ UNCHANGED <<storeVars, mode, item, poll, runs, routeVars, unitVars>>
  /\ UNCHANGED <<cache, cacheLog, wrapped, rop, batch, issued>>

\* the job's own cron task after the send: updateMessageStatus(id, "sent")
TaskUpdate(i) ==
  /\ cron.task[i] = "sent"
  /\ rows' = dbUpdateMessageStatus(store, rows, i, "sent").rows
  /\ cron' = [cron EXCEPT !.task[i] = "done"]
  /\ UNCHANGED <<now, store, hash, byTime, statusSet, last, prev>>
  /\ UNCHANGED <<dispatchVars, routeVars, unitVars, cache, cacheLog, wrapped, rop, batch, issued>>

\* a minute matches (one minute is one unit of the clock, so no other
\* callback started in this unit): the callback starts,
\* messages = getScheduledMessages(), now = new Date()
CronTick(k) ==
  /\ cron.tick[k].pc = "idle"
  /\ \A k2 \in Tickers : cron.tick[k2].pc = "run" => cron.tick[k2].asOf < now
  /\ cron' = [cron EXCEPT !.tick[k] =
                [pc |-> "run", asOf |-> now,
                 todo |-> Ascending(getScheduledMessages(rows)), cur |-> "none"]]
  /\ UNCHANGED <<storeVars, dispatchVars, routeVars, unitVars>>
  /\ UNCHANGED <<cache, cacheLog, wrapped, rop, batch, issued>>

\* the loop reaches a message that is not due: nothing is done for it
CronSkip(k) ==
  LET t == cron.tick[k]
  IN  /\ t.pc = "run"
      /\ t.cur = "none"
      /\ t.todo # <<>>
      /\ ~(rows[Head(t.todo)].scheduledTime <= t.asOf)
      /\ cron' = [cron EXCEPT !.tick[k].todo = Tail(t.todo)]
      /\ UNCHANGED <<storeVars, dispatchVars, routeVars, unitVars>>
      /\ UNCHANGED <<cache, cacheLog, wrapped, rop, batch, issued>>

\* the loop reaches a due message: await sendMessageWithRetry; a throw is
\* caught and logged and the loop goes on
CronSend(k, ok) ==
  LET t == cron.tick[k]
  IN  /\ t.pc = "run"
      /\ t.cur = "none"
      /\ t.todo # <<>>
      /\ rows[Head(t.todo)].scheduledTime <= t.asOf
      /\ Attempt(Head(t.todo), "cron")
      /\ cron' = [cron EXCEPT !.tick[k] =
                    IF ok THEN [t EXCEPT !.cur = "sent"]
                          ELSE [t EXCEPT !.todo = Tail(t.todo)]]
      /\ UNCHANGED <<storeVars, mode, item, poll, runs, routeVars, unitVars>>
      /\ UNCHANGED <<cache, cacheLog, wrapped, rop, batch, issued>>

\* after the send: await updateMessageStatus(message._id, "sent")
CronUpdate(k) ==
  LET t == cron.tick[k]
  IN  /\ t.pc = "run"
      /\ t.cur = "sent"
      /\ rows' = dbUpdateMessageStatus(store, rows, Head(t.todo), "sent").rows
      /\ cron' = [cron EXCEPT !.tick[k] = [t EXCEPT !.cur = "none", !.todo = Tail(t.todo)]]
      /\ UNCHANGED <<now, store, hash, byTime, statusSet, last, prev>>
      /\ UNCHANGED <<dispatchVars, routeVars, unitVars, cache, cacheLog, wrapped, rop, batch, issued>>

\* the loop is over, the callback's promise resolves
CronEnd(k) ==
  /\ cron.tick[k].pc = "run"
  /\ cron.tick[k].todo = <<>>
  /\ cron' = [cron EXCEPT !.tick[k] = NoTick]
  /\ UNCHANGED <<storeVars, dispatchVars, routeVars, unitVars>>
  /\ UNCHANGED <<cache, cacheLog, wrapped, rop, batch, issued>>

CronNext ==
  \/ \E d \in Delays : CronAddMessageToQueue(d)
  \/ \E i \in Ids, ok \in BOOLEAN : TaskSend(i, ok)
  \/ \E i \in Ids : TaskUpdate(i)
  \/ \E k \in Tickers : CronTick(k)
  \/ \E k \in Tickers : CronSkip(k)
  \/ \E k \in Tickers, ok \in BOOLEAN : CronSend(k, ok)
  \/ \E k \in Tickers : CronUpdate(k)
  \/ \E k \in Tickers : CronEnd(k)
  \/ Tick

CronSpec == CronInit /\ [][CronNext]_vars

\* a callback of the minute schedule that still has messages to go through
Busy(k) == cron.tick[k].pc = "run" /\ cron.tick[k].todo # <<>>

\* C23: two ticks of the poller never overlap: while one tick still has
\* messages of its batch to process no other tick has listed and is
\* processing a batch, so no job is in the batches of two ticks at once.
C23_TicksDoNotOverlap ==
  \A k1, k2 \in Tickers : k1 # k2 => ~(Busy(k1) /\ Busy(k2))

\* ---------------------------------------------------------------------
\* Claims on the status writes of the dispatchers
\* ---------------------------------------------------------------------
\* the step is a status update for job i by the poller, the Bull handler or
\* the workflow
StatusWrite(i) ==
  \/ poll.msgs[i] = "sent" /\ poll'.msgs[i] = "done"
  \/ item[i].pc = "sent" /\ item'[i].pc # "sent"
  \/ runs[i].pc = "update" /\ runs'[i].pc = "done"

\* C24: the status of a job is written once: a status update that follows a
\* delivery attempt finds the job still scheduled, no other tick, handler or
\* retry has written its status before.
C24_StatusWrittenOnce ==
  [][\A i \in Ids : StatusWrite(i) => JobStatus(i) = "scheduled"]_vars

\* ---------------------------------------------------------------------
\* redisHelper command by command.  saveScheduledMessage and
\* updateMessageStatus await one Redis (REST) command after the other; rop is
\* the operation that is between two of its commands.  A command that is
\* rejected throws to the catch of the operation, which throws an AppError:
\* the commands already done stay done.
\* ---------------------------------------------------------------------
\* the next command of the operation op on the hashes h, the sorted set bt
\* and the status sets ss
redisCommand(h, bt, ss, op) ==
  LET same == [hash |-> h, byTime |-> bt, statusSet |-> ss, op |-> NoOp]
  IN  CASE op.pc = "zadd" ->
             [same EXCEPT !.byTime = bt \cup {[id |-> op.id, score |-> h[op.id].scheduledTime]},
                          !.op = [op EXCEPT !.pc = "sadd"]]
        [] op.pc = "sadd" /\ op.kind = "save" ->
             [same EXCEPT !.statusSet = [ss EXCEPT !["scheduled"] = @ \cup {op.id}]]
        [] op.pc = "hset" ->
             [same EXCEPT !.hash = [h EXCEPT ![op.id].status = op.status],
                          !.op = IF op.old # op.status THEN [op EXCEPT !.pc = "srem"] ELSE NoOp]
        [] op.pc = "srem" ->
             [same EXCEPT !.statusSet = [ss EXCEPT ![op.old] = @ \ {op.id}],
                          !.op = [op EXCEPT !.pc = "sadd"]]
        [] op.pc = "sadd" /\ op.kind = "update" ->
             [same EXCEPT !.statusSet = [ss EXCEPT ![op.status] = @ \cup {op.id}],
                          !.op = IF op.status # "scheduled" THEN [op EXCEPT !.pc = "zrem"]
                                                            ELSE NoOp]
        [] op.pc = "zrem" ->
             [same EXCEPT !.byTime = {m \in bt : m.id # op.id}]

RedisStepInit ==
  /\ EmptyStore
  /\ store = "redis"
  /\ mode = "none"
  /\ NoDispatch
  /\ routeVersion = "none"
  /\ NoRoute
  /\ NoUnits

\* saveScheduledMessage up to its first command: hset scheduled:<id>
StepSave(delay) ==
  /\ rop = NoOp
  /\ FreeIds(hash) # {}
  /\ LET id == NewId(hash)
     IN  /\ hash' = [hash EXCEPT ![id] = [status |-> "scheduled", scheduledTime |-> now + delay]]
         /\ rop' = [kind |-> "save", id |-> id, pc |-> "zadd", status |-> "scheduled",
                    old |-> "none"]
  /\ UNCHANGED <<now, store, rows, byTime, statusSet, last, prev>>
  /\ UNCHANGED <<dispatchVars, routeVars, unitVars, cache, cacheLog, wrapped, cron, batch, issued>>

\* updateMessageStatus up to its first write: hgetall, 404 when there is no
\* hash, oldStatus = messageData.status
StepUpdate(id, status) ==
  /\ rop = NoOp
  /\ Exists(hash, id)
  /\ rop' = [kind |-> "update", id |-> id, pc |-> "hset", status |-> status,
             old |-> hash[id].status]
  /\ UNCHANGED <<storeVars, dispatchVars, routeVars, unitVars>>
  /\ UNCHANGED <<cache, cacheLog, wrapped, cron, batch, issued>>

\* the next command of the operation is done
StepCommand ==
  /\ rop # NoOp
  /\ LET r == redisCommand(hash, byTime, statusSet, rop)
     IN  /\ hash' = r.hash
         /\ byTime' = r.byTime
         /\ statusSet' = r.statusSet
         /\ rop' = r.op
  /\ UNCHANGED <<now, store, rows, last, prev>>
  /\ UNCHANGED <<dispatchVars, routeVars, unitVars, cache, cacheLog, wrapped, cron, batch, issued>>

\* the next command is rejected: the catch throws, the operation is over
StepFail ==
  /\ rop # NoOp
  /\ rop' = NoOp
  /\ UNCHANGED <<storeVars, dispatchVars, routeVars, unitVars>>
  /\ UNCHANGED <<cache, cacheLog, wrapped, cron, batch, issued>>

RedisStepNext ==
  \/ \E d \in Delays : StepSave(d)
  \/ \E i \in Ids, st \in Statuses : StepUpdate(i, st)
  \/ StepCommand
  \/ StepFail

RedisStepSpec == RedisStepInit /\ [][RedisStepNext]_vars

\* job i as a reader of the three structures finds it: whole when the hash,
\* the status sets and scheduled:by-time agree
Whole(i) ==
  IF Exists(hash, i)
    THEN /\ \A st \in Statuses : i \in statusSet[st] <=> st = hash[i].status
         /\ (\E m \in byTime : m.id = i) <=> hash[i].status = "scheduled"
    ELSE /\ \A st \in Statuses : i \notin statusSet[st]
         /\ \A m \in byTime : m.id # i

\* C25: a job is never partially written, neither for a reader between two
\* commands of an operation nor after an operation that failed in the middle:
\* its record, its status set and its by-time entry agree.
C25_NoPartialJob == \A i \in Ids : Whole(i)

\* C26: in a tick of the poller a failure for one job stays in that job's
\* branch: the run does not end while a listed job is still waiting for its
\* attempt or its status update, and every job the run is done with was
\* attempted.
C26_FailureStaysInItsBranch ==
  /\ \A i \in Ids : poll.msgs[i] = "done" => "poller" \in by[i]
  /\ poll.pc = "idle" => \A i \in Ids : poll.msgs[i] \in {"none", "done"}

\* a run is over in which the send of one job failed and another job was
\* sent and marked
C26_Witness ==
  /\ mode = "cron"
  /\ poll.pc = "idle"
  /\ \E i, j \in Ids :
       /\ poll.msgs[i] = "done" /\ JobStatus(i) = "scheduled"
       /\ poll.msgs[j] = "done" /\ JobStatus(j) = "sent"

\* ---------------------------------------------------------------------
\* Batches: WorkflowManager.scheduleBatchMessages (workflowHelper.mjs) and
\* batchMessageWorkflow (unnamed/part_015)
\* ---------------------------------------------------------------------
BatchSizes == 1..MaxJobs

\* for (const message of messages) saveScheduledMessage(chatId, content, options, 0)
RECURSIVE saveEach(_, _, _)
saveEach(st, n, t) ==
  IF n = 0 THEN st
  ELSE LET id == NewId(st.hash)
           r == redisSaveScheduledMessage(st.hash, st.byTime, st.statusSet, id, t, 0)
       IN  saveEach([hash |-> r.hash, byTime |-> r.byTime, statusSet |-> r.statusSet,
                     ids |-> Append(st.ids, id)], n - 1, t)

BatchInit ==
  /\ EmptyStore
  /\ mode = "workflow"
  /\ store = "redis"
  /\ NoDispatch
  /\ routeVersion = "none"
  /\ NoRoute
  /\ NoUnits

\* scheduleBatchMessages(messages, delayBetween): every message is saved,
\* then client.start({url: .../batch-message, body}); when start rejects the
\* error is logged and rethrown and the saved jobs stay
ScheduleBatchMessages(n, delayBetween, started) ==
  /\ batch.pc \in {"none", "done"}
  /\ Cardinality(FreeIds(hash)) >= n
  /\ LET r == saveEach([hash |-> hash, byTime |-> byTime, statusSet |-> statusSet,
                        ids |-> <<>>], n, now)
     IN  /\ hash' = r.hash
         /\ byTime' = r.byTime
         /\ statusSet' = r.statusSet
         /\ batch' = IF started
                       THEN [pc |-> "send", ids |-> r.ids, i |-> 1, results |-> <<>>,
                             delayBetween |-> delayBetween, at |-> 0, hurried |-> FALSE]
                       ELSE batch
  /\ UNCHANGED <<now, store, rows, last, prev>>
  /\ UNCHANGED <<dispatchVars, routeVars, unitVars, cache, cacheLog, wrapped, cron, rop, issued>>

\* the status the step `send-message-i` writes: "sent" in the try after the
\* send, "failed" in the catch
batchStatus(ok) == IF ok THEN "sent" ELSE "failed"

\* step `send-message-i`: sendMessageWithRetry, updateMessageStatus(messageId,
\* "sent"); in the catch updateMessageStatus(messageId, "failed"), whose own
\* error is logged; the result is pushed; then context.sleep(delayBetween)
\* unless this was the last message or delayBetween is 0
BatchStep(ok) ==
  /\ batch.pc = "send"
  /\ LET id == batch.ids[batch.i]
         u == redisUpdateMessageStatus(hash, byTime, statusSet, id, batchStatus(ok))
         v == IF ok /\ u.result # "ok"
                THEN redisUpdateMessageStatus(hash, byTime, statusSet, id, "failed")
                ELSE u
         isLast == batch.i = Len(batch.ids)
     IN  /\ Attempt(id, "broker")
         /\ hash' = v.hash
         /\ byTime' = v.byTime
         /\ statusSet' = v.statusSet
         /\ batch' = [batch EXCEPT
                        !.results = Append(@, ok /\ u.result = "ok"),
                        !.pc = IF isLast THEN "done"
                               ELSE IF batch.delayBetween > 0 THEN "sleep" ELSE "send",
                        !.i = IF ~isLast /\ batch.delayBetween = 0 THEN @ + 1 ELSE @,
                        !.at = now]
  /\ UNCHANGED <<now, store, rows, last, prev>>
  /\ UNCHANGED <<mode, item, poll, runs, routeVars, unitVars>>
  /\ UNCHANGED <<cache, cacheLog, wrapped, cron, rop, issued>>

\* context.sleep(delayBetween) is over: the loop goes to the next message
BatchWake ==
  /\ batch.pc = "sleep"
  /\ sleepElapsed(batch.at, FALSE, batch.delayBetween, now)
  /\ batch' = [batch EXCEPT !.pc = "send", !.i = @ + 1,
                            !.hurried = @ \/ now < batch.at + batch.delayBetween]
  /\ UNCHANGED <<storeVars, dispatchVars, routeVars, unitVars>>
  /\ UNCHANGED <<cache, cacheLog, wrapped, cron, rop, issued>>

BatchNext ==
  \/ \E n \in BatchSizes, d \in Delays, started \in BOOLEAN :
       ScheduleBatchMessages(n, d, started)
  \/ \E ok \in BOOLEAN : BatchStep(ok)
  \/ BatchWake
  \/ Tick

BatchSpec == BatchInit /\ [][BatchNext]_vars

\* C29: a batch run goes through its messages in index order, one result per
\* message processed, the job of each processed message is sent when its
\* send succeeded and failed when it did not, and between two consecutive
\* messages the run sleeps for delayBetween.
C29_BatchInOrderWithDelay ==
  batch.pc # "none" =>
    /\ Len(batch.results) = IF batch.pc = "send" THEN batch.i - 1 ELSE batch.i
    /\ \A k \in 1..Len(batch.results) :
         JobStatus(batch.ids[k]) = IF batch.results[k] THEN "sent" ELSE "failed"
    /\ batch.pc = "done" => Len(batch.results) = Len(batch.ids)
    /\ ~batch.hurried

\* a send call for job i has returned successfully and its status update is
\* what the handler does next (poller branch, Bull handler, messageWorkflow),
\* or the step of the batch run that is being taken sends it successfully
SendReturned(i) ==
  \/ poll.msgs[i] = "sent"
  \/ item[i].pc = "sent"
  \/ runs[i].pc = "update"
  \/ batch.pc = "send" /\ batch.ids[batch.i] = i /\ batch'.results[batch.i]

\* C27: the status of a job becomes sent only in a step that follows a send
\* call for that job which returned successfully; no step writes sent after a
\* failed or skipped send.
C27_SentOnlyAfterSuccessfulSend ==
  [][\A i \in Ids :
       JobStatus(i) # "sent" /\ JobStatus(i)' = "sent" => by'[i] # {} /\ SendReturned(i)]_vars

\* a job was sent by the poller and marked, another one failed and stays
\* scheduled
C27_Witness ==
  \E i, j \in Ids :
    /\ JobStatus(i) = "sent" /\ by[i] = {"poller"}
    /\ JobStatus(j) = "scheduled" /\ by[j] = {"poller"} /\ poll.msgs[j] = "done"

\* C28: in the enhanced sender every send attempt of a call, the retries
\* after a backoff wait included, starts while the client state is READY.
C28_EveryAttemptWhileReady ==
  [][sendVersion = "enhanced" /\ sends' = sends + 1 => clientState = "READY"]_vars

\* ---------------------------------------------------------------------
\* The Redis job store with its operations taken whole: saveScheduledMessage,
\* updateMessageStatus, deleteMessage (redisHelper) and the cleanup step of
\* cleanupWorkflow (unnamed/part_015).  generateId never returns an id twice.
\* ---------------------------------------------------------------------
\* deleteMessage: hgetall; when the hash exists del scheduled:<id>,
\* zrem scheduled:by-time, srem scheduled:status:<its status>
redisDeleteMessage(h, bt, ss, id) ==
  IF ~Exists(h, id)
    THEN [hash |-> h, byTime |-> bt, statusSet |-> ss]
    ELSE [hash |-> [h EXCEPT ![id] = NoRow],
          byTime |-> {m \in bt : m.id # id},
          statusSet |-> [ss EXCEPT ![h[id].status] = @ \ {id}]]

\* cleanup-messages: for the members of scheduled:status:sent and
\* scheduled:status:failed whose hash has an updatedAt before the cutoff
\* (the ids in old): del, srem from both sets, zrem
redisCleanup(h, bt, ss, old) ==
  LET gone == {id \in ss["sent"] \cup ss["failed"] : Exists(h, id) /\ id \in old}
  IN  [hash |-> [i \in Ids |-> IF i \in gone THEN NoRow ELSE h[i]],
       byTime |-> {m \in bt : m.id \notin gone},
       statusSet |-> [ss EXCEPT !["sent"] = @ \ gone, !["failed"] = @ \ gone]]

IndexInit == RedisStepInit

IndexSave(delay) ==
  /\ Ids \ issued # {}
  /\ LET id == CHOOSE x \in Ids \ issued : \A y \in Ids \ issued : x <= y
         r == redisSaveScheduledMessage(hash, byTime, statusSet, id, now, delay)
     IN  /\ hash' = r.hash
         /\ byTime' = r.byTime
         /\ statusSet' = r.statusSet
         /\ issued' = issued \cup {id}
         /\ last' = Call("save", id, "scheduled", "ok")
  /\ prev' = last
  /\ UNCHANGED <<now, store, rows>>
  /\ UNCHANGED <<dispatchVars, routeVars, unitVars, cache, cacheLog, wrapped, cron, rop, batch>>

IndexDelete(id) ==
  /\ Exists(hash, id)
  /\ LET r == redisDeleteMessage(hash, byTime, statusSet, id)
     IN  /\ hash' = r.hash
         /\ byTime' = r.byTime
         /\ statusSet' = r.statusSet
         /\ last' = Call("delete", id, "none", "ok")
  /\ prev' = last
  /\ UNCHANGED <<now, store, rows>>
  /\ UNCHANGED <<dispatchVars, routeVars, unitVars, lateVars>>

IndexCleanup(old) ==
  /\ LET r == redisCleanup(hash, byTime, statusSet, old)
     IN  /\ hash' = r.hash
         /\ byTime' = r.byTime
         /\ statusSet' = r.statusSet
         /\ hash' # hash
         /\ last' = Call("cleanup", 0, "none", "ok")
  /\ prev' = last
  /\ UNCHANGED <<now, store, rows>>
  /\ UNCHANGED <<dispatchVars, routeVars, unitVars, lateVars>>

IndexNext ==
  \/ \E d \in Delays : IndexSave(d)
  \/ \E i \in Ids, st \in Statuses : RedisUpdate(i, st)
  \/ \E i \in Ids : IndexDelete(i)
  \/ \E old \in SUBSET Ids : IndexCleanup(old)

IndexSpec == IndexInit /\ [][IndexNext]_vars

\* C30: after any sequence of completed save, update, delete and cleanup
\* operations on the Redis store an id is in scheduled:by-time exactly when
\* its record exists with status scheduled, and an id with a record is in
\* exactly one status set, the one of its record's status.
C30_IndexesMatchRecords ==
  \A i \in Ids :
    /\ (\E m \in byTime : m.id = i) <=> (Exists(hash, i) /\ hash[i].status = "scheduled")
    /\ Exists(hash, i) => \A st \in Statuses : i \in statusSet[st] <=> st = hash[i].status

====
